---------------------------- MODULE Spec2Model ----------------------------
(***************************************************************************)
(* A model of pipesys' descriptor distribution (twoliter, tools/pipesys):   *)
(*   - the path sanitizer as_relative_path            (cmd/multi_link.rs)   *)
(*   - the sink's fetch half, fetch_fds               (cmd/mod.rs)          *)
(*   - the descriptor source, MultiServer::serve      (multi_server.rs)     *)
(*   - the daemonizing sink, MultiLink::execute       (cmd/multi_link.rs)   *)
(*                                                                         *)
(* Paths and payloads are sequences of byte values.  The specifications     *)
(* SpecPath, SpecFetch, SpecServe, SpecExchange, Spec (one sink and an      *)
(* external consumer) and SpecSinks (two sinks) share the module.           *)
(***************************************************************************)
EXTENDS Integers, Sequences, FiniteSets, TLC

Min(a, b) == IF a < b THEN a ELSE b

(***************************************************************************)
(* State.                                                                  *)
(***************************************************************************)
\* the sanitizer's input and result
VARIABLES sanParent, sanPath, sanResult, sanDone
\* the abstract socket: whether a listener is bound, its backlog, and per
\* connection the datagrams sent to the client and the connection's status
VARIABLES bound, backlog, wire, link
\* MultiServer::serve: its position, configuration, descriptor table, open
\* handles, shared message, and per connection the peer and the spawned task
VARIABLES sPc, sBindings, sTable, sFiles, sFds, sPayload, sAccepted, cUid, cState, tPc
\* one fetch_fds call: its position, locals, descriptor table and result
VARIABLES fConn, fPc, fRead, fLen, fNum, fBuf, fFdBuf, fRecv, fTable, fTargets,
          fDups, fResult
\* the filesystem the sinks share: the publish parent, the marker, the log
\* file, the symlinks; and the map the source hands to a fetch
VARIABLES fsParent, fsMarker, fsLog, fsLinks, srcMap
\* per sink invocation: the foreground's and the child's position, the
\* foreground's error, the child's map and progress, and what it has done
VARIABLES gPc, gErr, dPc, dMap, dDone, did
\* per sink and watch: registered, pending events, blocked at least once
VARIABLES wReg, wEvents, wWaited
\* twoliter's tools: the embedded tarball, the position of install and
\* with_symlinks, the installed tools by target name, whether tools_dir
\* exists, what it holds, and the tools linked so far
VARIABLES tlTarball, tlPc, tlTools, tlDirExists, tlDir, tlLinked

varsPath == <<sanParent, sanPath, sanResult, sanDone>>
varsWire == <<bound, backlog, wire, link>>
varsServe == <<sPc, sBindings, sTable, sFiles, sFds, sPayload, sAccepted, cUid, cState, tPc>>
varsFetch == <<fConn, fPc, fRead, fLen, fNum, fBuf, fFdBuf, fRecv, fTable, fTargets,
               fDups, fResult>>
varsFs == <<fsParent, fsMarker, fsLog, fsLinks, srcMap>>
varsSink == <<gPc, gErr, dPc, dMap, dDone, did>>
varsWatch == <<wReg, wEvents, wWaited>>
varsTools == <<tlTarball, tlPc, tlTools, tlDirExists, tlDir, tlLinked>>
vars == <<varsPath, varsWire, varsFetch, varsServe, varsFs, varsSink, varsWatch, varsTools>>

\* what the steps of one part leave alone in the other parts
outsidePath == <<varsWire, varsFetch, varsServe, varsFs, varsSink, varsWatch, varsTools>>
outsideFetch == <<varsPath, varsServe, varsFs, varsSink, varsWatch, varsTools>>
outsideServe == <<varsPath, varsFs, varsSink, varsWatch, varsTools>>
outsideSink == <<varsPath, varsWire, varsFetch, varsServe, varsTools>>
outsideTools == <<varsPath, varsWire, varsFetch, varsServe, varsFs, varsSink, varsWatch>>

(***************************************************************************)
(* Bounds of the model.                                                    *)
(***************************************************************************)
\* longest enumerated input path of the sanitizer, in bytes
MaxPathLen == 5

(***************************************************************************)
(* std::path on Unix, as far as as_relative_path uses it.                   *)
(***************************************************************************)
\* the byte '/', the root marker and separator
SEP == 47
\* the byte '.'; ".." is the parent reference
DOT == 46

RootDir == <<SEP>>
CurDir == <<DOT>>
ParentDir == <<DOT, DOT>>

HasRoot(s) == Len(s) > 0 /\ s[1] = SEP

FirstSep(s) ==
    IF \E i \in 1..Len(s) : s[i] = SEP
    THEN CHOOSE i \in 1..Len(s) : s[i] = SEP /\ \A j \in 1..(i - 1) : s[j] # SEP
    ELSE 0

\* the byte string cut at every '/', empty pieces kept
RECURSIVE Segments(_)
Segments(s) ==
    LET k == FirstSep(s)
    IN  IF k = 0 THEN <<s>>
        ELSE <<SubSeq(s, 1, k - 1)>> \o Segments(SubSeq(s, k + 1, Len(s)))

\* a piece that Path::components() yields: not empty, and not a "." unless
\* that "." opens a relative path
IsComponentAt(segs, i) == segs[i] # <<>> /\ (segs[i] = CurDir => i = 1)

RECURSIVE ComponentsFrom(_, _)
ComponentsFrom(segs, i) ==
    IF i > Len(segs) THEN <<>>
    ELSE (IF IsComponentAt(segs, i) THEN <<segs[i]>> ELSE <<>>)
         \o ComponentsFrom(segs, i + 1)

\* Path::components(), each component given as its as_os_str()
Components(s) ==
    (IF HasRoot(s) THEN <<RootDir>> ELSE <<>>) \o ComponentsFrom(Segments(s), 1)

RECURSIVE JoinSegments(_)
JoinSegments(segs) ==
    IF Len(segs) = 0 THEN <<>>
    ELSE IF Len(segs) = 1 THEN segs[1]
    ELSE segs[1] \o <<SEP>> \o JoinSegments(Tail(segs))

\* path.strip_prefix("/") for a path that has a root: the bytes from the first
\* to the last component after the root (Components::as_path trims both ends)
StripRoot(s) ==
    LET segs == Segments(s)
        real == {i \in 2..Len(segs) : segs[i] # <<>> /\ segs[i] # CurDir}
    IN  IF real = {} THEN <<>>
        ELSE LET lo == CHOOSE i \in real : \A j \in real : i <= j
                 hi == CHOOSE i \in real : \A j \in real : j <= i
             IN  JoinSegments(SubSeq(segs, lo, hi))

\* Path::starts_with("..")
StartsWithParentDir(s) ==
    LET cs == Components(s) IN Len(cs) > 0 /\ cs[1] = ParentDir

\* Path::join (PathBuf::push)
PathJoin(p, r) ==
    IF HasRoot(r) THEN r
    ELSE IF Len(p) > 0 /\ p[Len(p)] # SEP THEN p \o <<SEP>> \o r
    ELSE p \o r

PathOk(p) == [ok |-> TRUE, path |-> p]
PathErr == [ok |-> FALSE, path |-> <<>>]

\* a sanitizer that only looks at the first component
HasParentRef_FirstOnly(path) == StartsWithParentDir(path)

\* multi_link.rs:151, the first check of as_relative_path
HasParentRef(path) ==
    \E i \in 1..Len(Components(path)) : Components(path)[i] = ParentDir

\* a sanitizer that leaves the root marker on the path
RelativePath_Unstripped(path) == path

\* multi_link.rs:158
RelativePath(path) == IF HasRoot(path) THEN StripRoot(path) ELSE path

as_relative_path(parent, path) ==
    IF HasParentRef(path) THEN PathErr
    ELSE IF StartsWithParentDir(RelativePath(path)) THEN PathErr
    ELSE PathOk(PathJoin(parent, RelativePath(path)))

(***************************************************************************)
(* The sanitizer applied to one (parent, path) input.                      *)
(***************************************************************************)
PathChars == {SEP, DOT, 97}

RECURSIVE SeqsUpTo(_, _)
SeqsUpTo(S, n) ==
    IF n = 0 THEN {<<>>}
    ELSE LET shorter == SeqsUpTo(S, n - 1)
         IN  shorter \cup {Append(s, c) : s \in {t \in shorter : Len(t) = n - 1}, c \in S}

\* "/tmp", "tmp", "/anything"
P_tmp_abs == <<47, 116, 109, 112>>
P_tmp_rel == <<116, 109, 112>>
P_anything == <<47, 97, 110, 121>>
\* "/tmp/foo/bar", "/and/then", "/uh-oh/../../../../help" of the unit tests
T_tmp_foo_bar == <<47, 116, 109, 112, 47, 102, 111, 111, 47, 98, 97, 114>>
T_and_then == <<47, 97, 110, 100, 47, 116, 104, 101, 110>>
T_would_escape ==
    <<47, 117, 104, 45, 111, 104, 47, 46, 46, 47, 46, 46, 47, 46, 46, 47, 46, 46,
      47, 104, 101, 108, 112>>
\* "/tmp/tmp/foo/bar" and "tmp/and/then", the results the unit tests expect
E_tmp_tmp_foo_bar ==
    <<47, 116, 109, 112, 47, 116, 109, 112, 47, 102, 111, 111, 47, 98, 97, 114>>
E_tmp_and_then == <<116, 109, 112, 47, 97, 110, 100, 47, 116, 104, 101, 110>>

SanParents == {P_tmp_abs, P_tmp_rel, P_anything, <<SEP>>, <<97, SEP>>}
SanPaths == SeqsUpTo(PathChars, MaxPathLen) \cup {T_tmp_foo_bar, T_and_then, T_would_escape}

Sanitize ==
    /\ ~sanDone
    /\ sanResult' = as_relative_path(sanParent, sanPath)
    /\ sanDone' = TRUE
    /\ UNCHANGED <<sanParent, sanPath>>
    /\ UNCHANGED outsidePath

(***************************************************************************)
(* The wire: SOCK_SEQPACKET datagrams, each a byte payload plus the open    *)
(* files attached as ancillary data.  wire[c] is everything the peer has    *)
(* sent on connection c; link[c] = "closed" once the peer dropped its end.  *)
(***************************************************************************)
\* clients that connect to one source
MaxConns == 2
\* longest payload an arbitrary peer sends, in units
MaxPayload == 3
\* most files an arbitrary peer attaches
MaxFiles == 2
\* highest descriptor that may be open in the sink before the fetch
MaxOpenFd == 4
\* descriptors a process may hold: numbers 0..FdLimit-1 (RLIMIT_NOFILE)
FdLimit == 8

Conns == 1..MaxConns

Datagram(data, files) == [data |-> data, files |-> files]

\* std::mem::size_of::<usize>()
USIZE_BYTES == 8

RECURSIVE ByteAt(_, _)
ByteAt(n, i) == IF i = 1 THEN n % 256 ELSE ByteAt(n \div 256, i - 1)

\* usize::to_ne_bytes (little endian)
to_ne_bytes(n) == [i \in 1..USIZE_BYTES |-> ByteAt(n, i)]

RECURSIVE ValueFrom(_, _)
ValueFrom(b, i) == IF i > Len(b) THEN 0 ELSE b[i] + 256 * ValueFrom(b, i + 1)

\* usize::from_ne_bytes
from_ne_bytes(b) == ValueFrom(b, 1)

\* bincode of Vec<PathBuf>: the count, then each path as its length and its
\* bytes.  A length field is one unit wide here (eight bytes in bincode).
RECURSIVE SerializePaths(_)
SerializePaths(paths) ==
    IF paths = <<>> THEN <<>>
    ELSE <<Len(paths[1])>> \o paths[1] \o SerializePaths(Tail(paths))

Serialize(paths) == <<Len(paths)>> \o SerializePaths(paths)

DeFail == [ok |-> FALSE, paths |-> <<>>]

RECURSIVE DeserializePaths(_, _, _)
DeserializePaths(buf, pos, k) ==
    IF k = 0 THEN [ok |-> TRUE, paths |-> <<>>]
    ELSE IF pos > Len(buf) THEN DeFail
    ELSE IF pos + buf[pos] > Len(buf) THEN DeFail
    ELSE LET rest == DeserializePaths(buf, pos + buf[pos] + 1, k - 1)
         IN  IF rest.ok
             THEN [ok |-> TRUE,
                   paths |-> <<SubSeq(buf, pos + 1, pos + buf[pos])>> \o rest.paths]
             ELSE DeFail

\* bincode::deserialize::<Vec<PathBuf>>; bytes after the last path are ignored
Deserialize(buf) ==
    IF Len(buf) = 0 THEN DeFail ELSE DeserializePaths(buf, 2, buf[1])

(***************************************************************************)
(* A process' descriptor table: number -> open file (NoFile when free).     *)
(***************************************************************************)
NoFile == "free"
\* the process' own files: stdio, sockets, the runtime's descriptors
OwnFile == "own"

Fds == 0..(FdLimit - 1)

FreeFrom(table, lo) == {n \in Fds : n >= lo /\ table[n] = NoFile}

LowestFree(table, lo) == CHOOSE n \in FreeFrom(table, lo) : \A m \in FreeFrom(table, lo) : n <= m

\* the kernel installs received files one by one at the lowest free number;
\* returns the table and the numbers given, in order
RECURSIVE Install(_, _)
Install(table, files) ==
    IF files = <<>> \/ FreeFrom(table, 0) = {}
    THEN [table |-> table, fds |-> <<>>]
    ELSE LET n == LowestFree(table, 0)
             rest == Install([table EXCEPT ![n] = files[1]], Tail(files))
         IN  [table |-> rest.table, fds |-> <<n>> \o rest.fds]

(***************************************************************************)
(* fetch_fds (cmd/mod.rs:143-190), one step per socket call, check or dup.  *)
(***************************************************************************)
\* mod.rs:86
MIN_FD == 3

Pending == [status |-> "pending", map |-> <<>>, err |-> ""]
\* an error that still hands over the entries validated so far
FetchErr_Partial(e) == [status |-> "ok", map |-> [i \in 1..Len(fDups) |-> <<i, fDups[i]>>], err |-> e]

FetchErr(e) == [status |-> "err", map |-> <<>>, err |-> e]
FetchOk(m) == [status |-> "ok", map |-> m, err |-> ""]

\* the datagram the next recv returns; at end of stream an empty one
AtEof == fRead = Len(wire[fConn]) /\ link[fConn] = "closed"
CanRecv == fRead < Len(wire[fConn]) \/ AtEof
NextDatagram == IF AtEof THEN Datagram(<<>>, <<>>) ELSE wire[fConn][fRead + 1]
Consumed == IF AtEof THEN fRead ELSE fRead + 1

\* fetch_usize: recv into a buffer of USIZE_BYTES; a datagram of any other
\* size that fills fewer bytes is an error, a longer one is cut
fetch_usize(d) ==
    IF Min(Len(d.data), USIZE_BYTES) # USIZE_BYTES
    THEN [ok |-> FALSE, val |-> 0]
    ELSE [ok |-> TRUE, val |-> from_ne_bytes(SubSeq(d.data, 1, USIZE_BYTES))]

\* mod.rs:144-147: a socket at the lowest free descriptor, connected to the
\* abstract address; refused when nothing listens there
FetchConnect ==
    /\ fPc = "connect"
    /\ IF FreeFrom(fTable, 0) = {} \/ ~bound
       THEN /\ fResult' = FetchErr("connect")
            /\ fPc' = "done"
            /\ UNCHANGED <<fTable, backlog, link>>
       ELSE /\ fTable' = [fTable EXCEPT ![LowestFree(fTable, 0)] = OwnFile]
            /\ backlog' = Append(backlog, fConn)
            /\ link' = [link EXCEPT ![fConn] = "queued"]
            /\ fPc' = "len"
            /\ UNCHANGED fResult
    /\ UNCHANGED <<bound, wire, fConn, fRead, fLen, fNum, fBuf, fFdBuf, fRecv, fTargets, fDups>>
    /\ UNCHANGED outsideFetch

FetchLen ==
    /\ fPc = "len"
    /\ CanRecv
    /\ LET r == fetch_usize(NextDatagram)
       IN  IF r.ok
           THEN /\ fLen' = r.val
                /\ fPc' = "num"
                /\ UNCHANGED fResult
           ELSE /\ fResult' = FetchErr("targets message length")
                /\ fPc' = "done"
                /\ UNCHANGED fLen
    /\ fRead' = Consumed
    /\ UNCHANGED <<varsWire, fConn, fNum, fBuf, fFdBuf, fRecv, fTable, fTargets, fDups>>
    /\ UNCHANGED outsideFetch

FetchNum ==
    /\ fPc = "num"
    /\ CanRecv
    /\ LET r == fetch_usize(NextDatagram)
       IN  IF r.ok
           THEN /\ fNum' = r.val
                /\ fPc' = "recv"
                /\ UNCHANGED fResult
           ELSE /\ fResult' = FetchErr("number of file descriptors")
                /\ fPc' = "done"
                /\ UNCHANGED fNum
    /\ fRead' = Consumed
    /\ UNCHANGED <<varsWire, fConn, fLen, fBuf, fFdBuf, fRecv, fTable, fTargets, fDups>>
    /\ UNCHANGED outsideFetch

Pad(s, n, fill) == [i \in 1..n |-> IF i <= Len(s) THEN s[i] ELSE fill]

\* recv_fds into targets_message_buf (fLen bytes) and fd_buf (fNum slots).
\* ctrunc: whether the library reports lost ancillary data as truncation.
RecvFds ==
    /\ fPc = "recv"
    /\ CanRecv
    /\ \E ctrunc \in BOOLEAN :
        LET d == NextDatagram
            bytes == Min(Len(d.data), fLen)
            inst == Install(fTable, SubSeq(d.files, 1, Min(Len(d.files), fNum)))
            lost == Len(inst.fds) < Len(d.files)
        IN  /\ (ctrunc => lost)
            /\ fBuf' = Pad(SubSeq(d.data, 1, bytes), fLen, 0)
            /\ fFdBuf' = Pad(inst.fds, fNum, -1)
            /\ fTable' = inst.table
            /\ fRecv' = [bytes |-> bytes,
                         truncated |-> (Len(d.data) > fLen) \/ ctrunc,
                         fds |-> Len(inst.fds)]
    /\ fRead' = Consumed
    /\ fPc' = "decode"
    /\ UNCHANGED <<varsWire, fConn, fLen, fNum, fTargets, fDups, fResult>>
    /\ UNCHANGED outsideFetch

\* the three ensure! of mod.rs:159-172, without the one on truncation
RecvChecks_NoTruncation(recv, len, num) == recv.fds = num /\ recv.bytes = len

\* the three ensure! of mod.rs:159-172
RecvChecks(recv, len, num) ==
    recv.fds = num /\ recv.bytes = len /\ ~recv.truncated

Decode ==
    /\ fPc = "decode"
    /\ IF ~RecvChecks(fRecv, fLen, fNum)
       THEN /\ fResult' = FetchErr("count")
            /\ fPc' = "done"
            /\ UNCHANGED fTargets
       ELSE IF ~Deserialize(fBuf).ok
       THEN /\ fResult' = FetchErr("deserialize")
            /\ fPc' = "done"
            /\ UNCHANGED fTargets
       ELSE /\ fTargets' = Deserialize(fBuf).paths
            /\ fPc' = "dup"
            /\ UNCHANGED fResult
    /\ UNCHANGED <<varsWire, fConn, fRead, fLen, fNum, fBuf, fFdBuf, fRecv, fTable, fDups>>
    /\ UNCHANGED outsideFetch

\* a check that lets every received descriptor through
FdAccepted_Any(fd) == TRUE

\* mod.rs:180, the filter on a received descriptor
FdAccepted(fd) == fd > MIN_FD

\* duplicate_fd: fcntl(fd, F_DUPFD(MIN_FD)), the lowest free number >= MIN_FD
duplicate_fd(table, fd) ==
    IF FreeFrom(table, MIN_FD) = {}
    THEN [ok |-> FALSE, fd |-> -1, table |-> table]
    ELSE LET n == LowestFree(table, MIN_FD)
         IN  [ok |-> TRUE, fd |-> n, table |-> [table EXCEPT ![n] = table[fd]]]

\* one element of fd_buf.into_iter().map(..): the collect stops at the first Err
DupNext ==
    /\ fPc = "dup"
    /\ Len(fDups) < Len(fFdBuf)
    /\ LET fd == fFdBuf[Len(fDups) + 1]
       IN  IF ~FdAccepted(fd)
           THEN /\ fResult' = FetchErr("invalid file descriptor")
                /\ fPc' = "done"
                /\ UNCHANGED <<fTable, fDups>>
           ELSE LET r == duplicate_fd(fTable, fd)
                IN  IF r.ok
                    THEN /\ fTable' = r.table
                         /\ fDups' = Append(fDups, r.fd)
                         /\ UNCHANGED <<fPc, fResult>>
                    ELSE /\ fResult' = FetchErr("duplicate")
                         /\ fPc' = "done"
                         /\ UNCHANGED <<fTable, fDups>>
    /\ UNCHANGED <<varsWire, fConn, fRead, fLen, fNum, fBuf, fFdBuf, fRecv, fTargets>>
    /\ UNCHANGED outsideFetch

\* a zip that pairs the paths with the descriptors in reverse order
Zip_Reversed(a, b) ==
    [i \in 1..Min(Len(a), Len(b)) |-> <<a[i], b[Min(Len(a), Len(b)) + 1 - i]>>]

\* Iterator::zip: as long as the shorter of the two
Zip(a, b) == [i \in 1..Min(Len(a), Len(b)) |-> <<a[i], b[i]>>]

\* mod.rs:189
FetchFinish ==
    /\ fPc = "dup"
    /\ Len(fDups) = Len(fFdBuf)
    /\ fResult' = FetchOk(Zip(fTargets, fDups))
    /\ fPc' = "done"
    /\ UNCHANGED <<varsWire, fConn, fRead, fLen, fNum, fBuf, fFdBuf, fRecv, fTable,
                   fTargets, fDups>>
    /\ UNCHANGED outsideFetch

(***************************************************************************)
(* The messages of an arbitrary peer, and the sink's tables.                *)
(***************************************************************************)
PayloadUnits == {0, 1, 2}
\* the files an arbitrary peer attaches, in order
PeerFiles == <<"f1", "f2", "f3">>

UsizeMsgs(hi) ==
    {Datagram(to_ne_bytes(n), <<>>) : n \in 0..hi} \cup {Datagram(<<1>>, <<>>)}

PeerWires ==
    {<<>>}
    \cup {<<a, b, Datagram(data, SubSeq(PeerFiles, 1, k))>> :
            a \in UsizeMsgs(MaxPayload), b \in UsizeMsgs(MaxFiles),
            data \in SeqsUpTo(PayloadUnits, MaxPayload), k \in 0..MaxFiles}

\* the sink's table when the pipesys binary calls fetch_fds: a Rust process
\* starts with 0, 1 and 2 open, and the runtime may hold the next few numbers
ServeSinkTables ==
    {[n \in Fds |-> IF n <= k THEN OwnFile ELSE NoFile] : k \in (MIN_FD - 1)..MaxOpenFd}

\* the sink's table before fetch_fds: any nonempty set of open descriptors
SinkTables ==
    {[n \in Fds |-> IF n \in open THEN OwnFile ELSE NoFile] :
        open \in (SUBSET (0..MaxOpenFd)) \ {{}}}

\* an arbitrary peer takes the queued connection, sends what it likes, and
\* drops its end
PeerSends ==
    /\ link[fConn] = "queued"
    /\ \E w \in PeerWires : wire' = [wire EXCEPT ![fConn] = w]
    /\ link' = [link EXCEPT ![fConn] = "closed"]
    /\ backlog' = <<>>
    /\ UNCHANGED <<bound, varsFetch>>
    /\ UNCHANGED outsideFetch

(***************************************************************************)
(* MultiServer::serve (multi_server.rs:70-151).                             *)
(***************************************************************************)
\* most bindings of a configuration
MaxBindings == 2

\* the configured client_uid and some other user's
ExpectedUid == "client-uid"
OtherUid == "other-uid"

\* target paths "a", "b"
TargetPaths == {<<97>>, <<98>>}
\* the i-th binding's source path
SourcePaths == <<"s1", "s2", "s3", "s4">>

RECURSIVE ListsUpTo(_, _)
ListsUpTo(S, n) ==
    IF n = 0 THEN {<<>>}
    ELSE LET shorter == ListsUpTo(S, n - 1)
         IN  shorter \cup {Append(l, x) : l \in {t \in shorter : Len(t) = n - 1}, x \in S}

\* MultiServerConf: the bindings, each a source path and a target path
Configs ==
    {[i \in 1..Len(ts) |-> [source |-> SourcePaths[i], target |-> ts[i]]] :
        ts \in ListsUpTo(TargetPaths, MaxBindings)}

\* stdio open, nothing else
ServerTable == [n \in Fds |-> IF n < 3 THEN OwnFile ELSE NoFile]

\* serve returns Err: the listener and every handle of source_files are dropped
ServeReturns ==
    /\ sPc' = "stopped"
    /\ bound' = FALSE
    /\ sTable' = [n \in Fds |-> IF \E i \in 1..Len(sFiles) : sFiles[i].fd = n
                                THEN NoFile ELSE sTable[n]]
    /\ sFiles' = <<>>

\* multi_server.rs:71-74
Bind ==
    /\ sPc = "bind"
    /\ \E ok \in BOOLEAN :
        IF ok /\ ~bound /\ FreeFrom(sTable, 0) # {}
        THEN /\ bound' = TRUE
             /\ sTable' = [sTable EXCEPT ![LowestFree(sTable, 0)] = OwnFile]
             /\ sPc' = "open"
             /\ UNCHANGED sFiles
        ELSE /\ sPc' = "stopped"
             /\ UNCHANGED <<bound, sTable, sFiles>>
    /\ UNCHANGED <<backlog, wire, link, sBindings, sFds, sPayload, sAccepted, cUid, cState, tPc>>
    /\ UNCHANGED <<varsFetch, outsideServe>>

\* OpenOptions::open of each binding's source, in order
RECURSIVE OpenAll(_, _)
OpenAll(table, bindings) ==
    IF bindings = <<>> THEN [table |-> table, files |-> <<>>]
    ELSE LET n == LowestFree(table, 0)
             rest == OpenAll([table EXCEPT ![n] = bindings[1].source], Tail(bindings))
         IN  [table |-> rest.table,
              files |-> <<[file |-> bindings[1].source, fd |-> n]>> \o rest.files]

FdOf(f) == f.fd
TargetOf(b) == b.target

\* multi_server.rs:96, the descriptor numbers of source_files, in order
FdList(files) == [i \in 1..Len(files) |-> FdOf(files[i])]
\* multi_server.rs:98-104, the bindings' target paths, in order
TargetList(bindings) == [i \in 1..Len(bindings) |-> TargetOf(bindings[i])]

\* multi_server.rs:76-111: open the sources, keep the handles, build the
\* descriptor list and the serialized target paths; any open error ends serve
OpenSources ==
    /\ sPc = "open"
    /\ \E ok \in BOOLEAN :
        IF ok /\ Cardinality(FreeFrom(sTable, 0)) >= Len(sBindings)
        THEN LET o == OpenAll(sTable, sBindings)
             IN  /\ sTable' = o.table
                 /\ sFiles' = o.files
                 /\ sFds' = FdList(o.files)
                 /\ sPayload' = Serialize(TargetList(sBindings))
                 /\ sPc' = "listen"
                 /\ UNCHANGED bound
        ELSE /\ ServeReturns
             /\ UNCHANGED <<sFds, sPayload>>
    /\ UNCHANGED <<backlog, wire, link, sBindings, sAccepted, cUid, cState, tPc>>
    /\ UNCHANGED <<varsFetch, outsideServe>>

\* a server that serves every peer
UidMatches_Any(c) == TRUE

\* multi_server.rs:125-126
UidMatches(c) == cUid[c] = ExpectedUid

\* multi_server.rs:113-134: accept the next connection, read its peer
\* credentials, drop it on another UID, else spawn its task
Accept(c) ==
    /\ sPc = "listen"
    /\ backlog # <<>>
    /\ c = Head(backlog)
    /\ backlog' = Tail(backlog)
    /\ sAccepted' = Append(sAccepted, c)
    /\ \E credsOk \in BOOLEAN :
        IF ~credsOk
        THEN /\ ServeReturns
             /\ link' = [link EXCEPT ![c] = "closed"]
             /\ cState' = [cState EXCEPT ![c] = "dropped"]
             /\ UNCHANGED tPc
        ELSE IF ~UidMatches(c)
        THEN /\ link' = [link EXCEPT ![c] = "closed"]
             /\ cState' = [cState EXCEPT ![c] = "ignored"]
             /\ UNCHANGED <<sPc, bound, sTable, sFiles, tPc>>
        ELSE /\ link' = [link EXCEPT ![c] = "accepted"]
             /\ cState' = [cState EXCEPT ![c] = "serving"]
             /\ tPc' = [tPc EXCEPT ![c] = "send_len"]
             /\ UNCHANGED <<sPc, bound, sTable, sFiles>>
    /\ UNCHANGED <<wire, sBindings, sFds, sPayload, cUid>>
    /\ UNCHANGED <<varsFetch, outsideServe>>

\* multi_server.rs:113-116: accept itself fails
AcceptFails ==
    /\ sPc = "listen"
    /\ ServeReturns
    /\ UNCHANGED <<backlog, wire, link, sBindings, sFds, sPayload, sAccepted, cUid, cState, tPc>>
    /\ UNCHANGED <<varsFetch, outsideServe>>

\* the open files behind the descriptor numbers, as the kernel attaches them
FilesOf(table, fds) == [i \in 1..Len(fds) |-> table[fds[i]]]

\* a task that announces the descriptor count before the payload length
TaskMessage_CountFirst(pc) ==
    IF pc = "send_len" THEN Datagram(to_ne_bytes(Len(sFds)), <<>>)
    ELSE IF pc = "send_num" THEN Datagram(to_ne_bytes(Len(sPayload)), <<>>)
    ELSE Datagram(sPayload, FilesOf(sTable, sFds))

\* what the task of multi_server.rs:134-149 sends at each of its positions
TaskMessage(pc) ==
    IF pc = "send_len" THEN Datagram(to_ne_bytes(Len(sPayload)), <<>>)
    ELSE IF pc = "send_num" THEN Datagram(to_ne_bytes(Len(sFds)), <<>>)
    ELSE Datagram(sPayload, FilesOf(sTable, sFds))

TaskAfter(pc) ==
    IF pc = "send_len" THEN "send_num"
    ELSE IF pc = "send_num" THEN "send_fds"
    ELSE "done"

\* a task that runs only once every task accepted before it has ended
Runnable_InTurn(c) ==
    \A i \in 1..Len(sAccepted) :
        sAccepted[i] = c => \A j \in 1..(i - 1) : tPc[sAccepted[j]] \notin {"send_len", "send_num", "send_fds"}

\* multi_server.rs:134: tokio::spawn, the task is scheduled on its own
Runnable(c) == TRUE

\* one conn.send / conn.send_fds of a spawned task; an error ends the task,
\* and the connection is dropped when the task ends
TaskSend(c) ==
    /\ tPc[c] \in {"send_len", "send_num", "send_fds"}
    /\ Runnable(c)
    /\ \E ok \in BOOLEAN :
        IF ok /\ \A i \in 1..Len(TaskMessage(tPc[c]).files) :
                    TaskMessage(tPc[c]).files[i] # NoFile
        THEN /\ wire' = [wire EXCEPT ![c] = Append(@, TaskMessage(tPc[c]))]
             /\ tPc' = [tPc EXCEPT ![c] = TaskAfter(@)]
             /\ link' = [link EXCEPT ![c] = IF TaskAfter(tPc[c]) = "done" THEN "closed" ELSE @]
        ELSE /\ tPc' = [tPc EXCEPT ![c] = "failed"]
             /\ link' = [link EXCEPT ![c] = "closed"]
             /\ UNCHANGED wire
    /\ UNCHANGED <<bound, backlog, sPc, sBindings, sTable, sFiles, sFds, sPayload, sAccepted,
                   cUid, cState>>
    /\ UNCHANGED <<varsFetch, outsideServe>>

\* some other client connects to the listening socket and waits
ClientConnect(c) ==
    /\ c # fConn
    /\ link[c] = "idle"
    /\ bound
    /\ backlog' = Append(backlog, c)
    /\ link' = [link EXCEPT ![c] = "queued"]
    /\ UNCHANGED <<bound, wire, varsServe, varsFetch, outsideServe>>

(***************************************************************************)
(* The sink, MultiLink::execute (cmd/multi_link.rs:29-126).  An invocation  *)
(* has a foreground process and, after the detach, a child.                 *)
(***************************************************************************)
\* most entries of a fetched map
MaxLinks == 2
\* most events kept pending on one watch (later ones find the queue non-empty)
MaxEvents == 2

\* the sink invocations; an invocation's name stands for its child's pid
Sinks == {"A", "B"}
\* the foreground's CREATE watch and the child's CREATE and DELETE watches
Watches == {"fg", "create", "delete"}

\* --parent
SinkParent == P_tmp_abs
\* target paths a source may bind: "a", "/a" (the same link as "a"), "b",
\* and one with a parent reference
SinkTargets == {<<97>>, <<SEP, 97>>, <<98>>, T_would_escape}
\* the maps fetch_fds may return: the i-th descriptor is MIN_FD + i
SinkMaps ==
    {[i \in 1..Len(ts) |-> <<ts[i], MIN_FD + i>>] : ts \in ListsUpTo(SinkTargets, MaxLinks)}

\* a check that finds nothing
PathExists_Never(present) == FALSE

\* Path::exists
PathExists(present) == present

\* an event of a kind reaches every registered watch of that kind
Deliver(events, kinds) ==
    [k \in Sinks |-> [w \in Watches |->
        IF w \in kinds /\ wReg[k][w] THEN Min(events[k][w] + 1, MaxEvents)
        ELSE events[k][w]]]

\* a failure that is noted while execute goes on to the detach
SinkFails_GoesOn(k, e) ==
    /\ gPc' = [gPc EXCEPT ![k] = "fork"]
    /\ gErr' = [gErr EXCEPT ![k] = e]

\* multi_link.rs:31-51: bail! or `?` returns the error from execute
SinkFails(k, e) ==
    /\ gPc' = [gPc EXCEPT ![k] = "err"]
    /\ gErr' = [gErr EXCEPT ![k] = e]

\* multi_link.rs:30-35
SinkCheckParent(k) ==
    /\ gPc[k] = "check_parent"
    /\ IF PathExists(fsParent)
       THEN SinkFails(k, "parent exists")
       ELSE /\ gPc' = [gPc EXCEPT ![k] = "check_marker"]
            /\ UNCHANGED gErr
    /\ UNCHANGED <<varsFs, dPc, dMap, dDone, did, varsWatch, outsideSink>>

\* multi_link.rs:36-41
SinkCheckMarker(k) ==
    /\ gPc[k] = "check_marker"
    /\ IF PathExists(fsMarker)
       THEN SinkFails(k, "marker exists")
       ELSE /\ gPc' = [gPc EXCEPT ![k] = "fetch"]
            /\ UNCHANGED gErr
    /\ UNCHANGED <<varsFs, dPc, dMap, dDone, did, varsWatch, outsideSink>>

\* multi_link.rs:44: fetch_fds connects and returns the source's map or fails
SinkFetch(k) ==
    /\ gPc[k] = "fetch"
    /\ did' = [did EXCEPT ![k] = @ \cup {"connect"}]
    /\ \E ok \in BOOLEAN :
        IF ok
        THEN /\ dMap' = [dMap EXCEPT ![k] = srcMap]
             /\ gPc' = [gPc EXCEPT ![k] = "log"]
             /\ UNCHANGED gErr
        ELSE /\ SinkFails(k, "fetch")
             /\ UNCHANGED dMap
    /\ UNCHANGED <<varsFs, dPc, dDone, varsWatch, outsideSink>>

\* multi_link.rs:47-51: the log file is created (or opened) beside the parent
SinkLog(k) ==
    /\ gPc[k] = "log"
    /\ \E ok \in BOOLEAN :
        IF ok
        THEN /\ fsLog' = TRUE
             /\ did' = [did EXCEPT ![k] = @ \cup {"log"}]
             /\ gPc' = [gPc EXCEPT ![k] = "fork"]
             /\ UNCHANGED gErr
        ELSE /\ SinkFails(k, "log")
             /\ UNCHANGED <<fsLog, did>>
    /\ UNCHANGED <<fsParent, fsMarker, fsLinks, srcMap, dPc, dMap, dDone, varsWatch, outsideSink>>

\* multi_link.rs:55-85 on the foreground side: Daemonize::execute forks or
\* fails to; Outcome::Parent is not looked at, and the scope ends
SinkFork(k) ==
    /\ gPc[k] = "fork"
    /\ \E forked \in BOOLEAN :
        IF forked
        THEN /\ dPc' = [dPc EXCEPT ![k] = "daemonize"]
             /\ did' = [did EXCEPT ![k] = @ \cup {"fork"}]
        ELSE UNCHANGED <<dPc, did>>
    /\ gPc' = [gPc EXCEPT ![k] = "watch"]
    /\ UNCHANGED <<varsFs, gErr, dMap, dDone, varsWatch, outsideSink>>

(***************************************************************************)
(* The marker wait.  inotify_init registers a watch on the marker's         *)
(* directory; inotify_wait checks its condition, and while the condition    *)
(* does not hold it blocks for the next event and checks again.             *)
(***************************************************************************)
\* a condition that never holds
file_found_Never(present) == FALSE

\* a condition that always holds
file_found_Always(present) == TRUE

\* multi_link.rs:130-140: fs::metadata(path).is_ok()
file_found(present) == present

\* a deletion condition that always holds
file_not_found_Always(present) == TRUE

\* multi_link.rs:143-145
file_not_found(present) == ~file_found(present)

\* the condition each watch is waited on with (multi_link.rs:92, 120, 121)
WaitCond(w) == IF w = "delete" THEN file_not_found(fsMarker) ELSE file_found(fsMarker)

inotify_init(k, w) == wReg' = [wReg EXCEPT ![k][w] = TRUE]

\* the blocked wait takes one pending event
TakeEvent(k, w) ==
    /\ wEvents[k][w] > 0
    /\ wEvents' = [wEvents EXCEPT ![k][w] = @ - 1]
    /\ wWaited' = [wWaited EXCEPT ![k][w] = TRUE]

\* multi_link.rs:91: the foreground registers its CREATE watch
SinkWatch(k) ==
    /\ gPc[k] = "watch"
    /\ \E ok \in BOOLEAN :
        IF ok
        THEN /\ inotify_init(k, "fg")
             /\ gPc' = [gPc EXCEPT ![k] = "precheck"]
             /\ UNCHANGED gErr
        ELSE /\ SinkFails(k, "watch")
             /\ UNCHANGED wReg
    /\ UNCHANGED <<varsFs, dPc, dMap, dDone, did, wEvents, wWaited, outsideSink>>

\* multi_link.rs:92, inotify_wait's first look at its condition
SinkPrecheck(k) ==
    /\ gPc[k] = "precheck"
    /\ gPc' = [gPc EXCEPT ![k] = IF WaitCond("fg") THEN "ok" ELSE "wait"]
    /\ UNCHANGED <<varsFs, gErr, dPc, dMap, dDone, did, varsWatch, outsideSink>>

\* multi_link.rs:92, inotify_wait woken by an event
SinkWake(k) ==
    /\ gPc[k] = "wait"
    /\ TakeEvent(k, "fg")
    /\ gPc' = [gPc EXCEPT ![k] = IF WaitCond("fg") THEN "ok" ELSE "wait"]
    /\ UNCHANGED <<varsFs, gErr, dPc, dMap, dDone, did, wReg, outsideSink>>

(***************************************************************************)
(* The child: multi_link.rs:57-83 and manage_symlinks (95-126).  Every      *)
(* error ends in process::exit(1), a clean run in process::exit(0).         *)
(***************************************************************************)
\* a child that goes on into the code after the detach instead of exiting
ChildExits_GoesOn(k, status) == dPc' = [dPc EXCEPT ![k] = "publish"]

\* multi_link.rs:65, 77, 82: std::process::exit(status)
ChildExits(k, status) == dPc' = [dPc EXCEPT ![k] = IF status = 0 THEN "exit0" ELSE "exit1"]

\* multi_link.rs:57-66: the child side of Daemonize::execute
ChildDaemonized(k) ==
    /\ dPc[k] = "daemonize"
    /\ \E ok \in BOOLEAN :
        IF ok THEN dPc' = [dPc EXCEPT ![k] = "watch_create"] ELSE ChildExits(k, 1)
    /\ UNCHANGED <<varsFs, gPc, gErr, dMap, dDone, did, varsWatch, outsideSink>>

WatchOf(pc) ==
    IF pc \in {"watch_create", "precheck_create", "wait_create"} THEN "create" ELSE "delete"

\* where the child goes when the wait on a watch returns
AfterWait(w) == IF w = "create" THEN "precheck_delete" ELSE "remove"

\* multi_link.rs:96-97: the CREATE watch, then the DELETE watch
ChildWatch(k) ==
    /\ dPc[k] \in {"watch_create", "watch_delete"}
    /\ \E ok \in BOOLEAN :
        IF ok
        THEN /\ inotify_init(k, WatchOf(dPc[k]))
             /\ dPc' = [dPc EXCEPT ![k] = IF @ = "watch_create" THEN "watch_delete"
                                            ELSE "publish"]
        ELSE /\ ChildExits(k, 1)
             /\ UNCHANGED wReg
    /\ UNCHANGED <<varsFs, gPc, gErr, dMap, dDone, did, wEvents, wWaited, outsideSink>>

\* multi_link.rs:101, the link location of each target path a map may hold
LinkOf == [path \in SinkTargets |-> as_relative_path(SinkParent, path)]

Symlink(k, at, fd) == [at |-> at, pid |-> k, fd |-> fd]

\* a location at which a symlink can always be created
LinkAt_Never(at) == FALSE

\* multi_link.rs:110-112: fs::symlink fails on an existing link
LinkAt(at) == \E l \in fsLinks : l.at = at

\* multi_link.rs:100-114, one entry of the map: sanitize, create the link's
\* directory, create the symlink to /proc/<pid>/fd/<fd>
ChildPublish(k) ==
    /\ dPc[k] = "publish"
    /\ dDone[k] < Len(dMap[k])
    /\ LET path == dMap[k][dDone[k] + 1][1]
           fd == dMap[k][dDone[k] + 1][2]
           at == LinkOf[path]
       IN  IF ~at.ok
           THEN /\ ChildExits(k, 1)
                /\ UNCHANGED <<fsParent, fsLinks, dDone, did>>
           ELSE \E mkdir, symlink \in BOOLEAN :
                IF ~mkdir
                THEN /\ ChildExits(k, 1)
                     /\ UNCHANGED <<fsParent, fsLinks, dDone, did>>
                ELSE /\ fsParent' = TRUE
                     /\ IF symlink /\ ~LinkAt(at.path)
                        THEN /\ fsLinks' = fsLinks \cup {Symlink(k, at.path, fd)}
                             /\ dDone' = [dDone EXCEPT ![k] = @ + 1]
                             /\ did' = [did EXCEPT ![k] = @ \cup {"mkdir", "symlink"}]
                             /\ UNCHANGED dPc
                        ELSE /\ ChildExits(k, 1)
                             /\ did' = [did EXCEPT ![k] = @ \cup {"mkdir"}]
                             /\ UNCHANGED <<fsLinks, dDone>>
    /\ UNCHANGED <<fsMarker, fsLog, srcMap, gPc, gErr, dMap, varsWatch, outsideSink>>

\* a loop taken to have ended at any entry
LoopDone_Any(k) == TRUE

\* multi_link.rs:100-114: the loop over fd_map has gone through every entry
LoopDone(k) == dDone[k] = Len(dMap[k])

\* multi_link.rs:116-118: fs::write(marker, b""); a CREATE event when the
\* file is new
ChildMarker(k) ==
    /\ dPc[k] = "publish"
    /\ LoopDone(k)
    /\ \E ok \in BOOLEAN :
        IF ok
        THEN /\ fsMarker' = TRUE
             /\ wEvents' = IF fsMarker THEN wEvents ELSE Deliver(wEvents, {"fg", "create"})
             /\ did' = [did EXCEPT ![k] = @ \cup {"marker"}]
             /\ dPc' = [dPc EXCEPT ![k] = "precheck_create"]
        ELSE /\ ChildExits(k, 1)
             /\ UNCHANGED <<fsMarker, wEvents, did>>
    /\ UNCHANGED <<fsParent, fsLog, fsLinks, srcMap, gPc, gErr, dMap, dDone, wReg, wWaited,
                   outsideSink>>

\* multi_link.rs:120-121, inotify_wait's first look at its condition
ChildPrecheck(k) ==
    /\ dPc[k] \in {"precheck_create", "precheck_delete"}
    /\ LET w == WatchOf(dPc[k])
       IN  dPc' = [dPc EXCEPT ![k] = IF WaitCond(w) THEN AfterWait(w)
                                      ELSE IF w = "create" THEN "wait_create"
                                      ELSE "wait_delete"]
    /\ UNCHANGED <<varsFs, gPc, gErr, dMap, dDone, did, varsWatch, outsideSink>>

\* multi_link.rs:120-121, inotify_wait woken by an event
ChildWake(k) ==
    /\ dPc[k] \in {"wait_create", "wait_delete"}
    /\ LET w == WatchOf(dPc[k])
       IN  /\ TakeEvent(k, w)
           /\ dPc' = [dPc EXCEPT ![k] = IF WaitCond(w) THEN AfterWait(w) ELSE @]
    /\ UNCHANGED <<varsFs, gPc, gErr, dMap, dDone, did, wReg, outsideSink>>

\* multi_link.rs:123-125 and 81-82: remove_dir_all(parent), then exit(0)
ChildRemove(k) ==
    /\ dPc[k] = "remove"
    /\ \E ok \in BOOLEAN :
        IF ok /\ fsParent
        THEN /\ fsParent' = FALSE
             /\ fsLinks' = {}
             /\ did' = [did EXCEPT ![k] = @ \cup {"rmdir"}]
             /\ ChildExits(k, 0)
        ELSE /\ ChildExits(k, 1)
             /\ UNCHANGED <<fsParent, fsLinks, did>>
    /\ UNCHANGED <<fsMarker, fsLog, srcMap, gPc, gErr, dMap, dDone, varsWatch, outsideSink>>

(***************************************************************************)
(* The external consumer: deletes the marker when it is done with the       *)
(* links; it, or anyone, may also create a file at the marker path.         *)
(***************************************************************************)
ExtDeleteMarker ==
    /\ fsMarker
    /\ fsMarker' = FALSE
    /\ wEvents' = Deliver(wEvents, {"delete"})
    /\ UNCHANGED <<fsParent, fsLog, fsLinks, srcMap, varsSink, wReg, wWaited, outsideSink>>

ExtCreateMarker ==
    /\ ~fsMarker
    /\ fsMarker' = TRUE
    /\ wEvents' = Deliver(wEvents, {"fg", "create"})
    /\ UNCHANGED <<fsParent, fsLog, fsLinks, srcMap, varsSink, wReg, wWaited, outsideSink>>

(***************************************************************************)
(* twoliter's tools (twoliter/src/tools.rs): Tools::install seals the       *)
(* tarball's regular entries and the embedded binaries into anonymous       *)
(* files; with_symlinks links each of them under tools_dir.                 *)
(***************************************************************************)
\* most entries of the embedded tarball
MaxEntries == 2

\* tools.rs:64-73, the embedded binaries in the order they are sealed
EmbeddedTools ==
    <<"bottlerocket-variant", "buildsys", "pipesys", "pubsys", "pubsys-setup", "testsys",
      "tuftool", "unplug">>

\* entries a tools tarball may hold: scripts, a directory, and a file named
\* like an embedded binary
TarNames == {"Makefile.toml", "docker-go", "pipesys"}
TarTypes == {"Regular", "Directory"}
TarEntries == [name : TarNames, type : TarTypes]
Tarballs == ListsUpTo(TarEntries, MaxEntries)

\* tools.rs:51-57
IsRegular(entry) == entry.type = "Regular"

\* tools.rs:38-79: the target names in the order their files are sealed
SealedNames(tarball) ==
    [i \in 1..Len(SelectSeq(tarball, IsRegular)) |-> SelectSeq(tarball, IsRegular)[i].name]
        \o EmbeddedTools

\* tools.rs:190-192: /proc/<pid>/fd/<fd> of the nth sealed file
SealedFilePath(nth) == [pid |-> "twoliter", nth |-> nth]

\* tools.rs:81-84: collect into a HashMap, a later file replacing an earlier
\* one of the same target name
Collect(names) ==
    [n \in {names[i] : i \in 1..Len(names)} |->
        SealedFilePath(CHOOSE i \in 1..Len(names) :
            names[i] = n /\ \A j \in (i + 1)..Len(names) : names[j] # n)]

\* tools.rs:127-129
tool(tools, name) == IF name \in DOMAIN tools THEN <<tools[name]>> ELSE <<>>

\* tools.rs:206, 223: the symlink tools_dir/<target name> -> sealed file path
ToolLink(name, path) == [name |-> name, target |-> path]

\* a removal that leaves the directory's content in place
remove_dir_all_Keep(content) == content

\* tools.rs:96-98
remove_dir_all(content) == {}

\* tools.rs:263-269: dropping the linked tools removes their symlinks
DropLinked(content, tools, linked) ==
    content \ {ToolLink(n, tools[n]) : n \in linked}

\* tools.rs:34-86
ToolsInstall ==
    /\ tlPc = "install"
    /\ \E ok \in BOOLEAN :
        IF ok
        THEN /\ tlTools' = Collect(SealedNames(tlTarball))
             /\ tlPc' = "installed"
        ELSE /\ tlPc' = "err"
             /\ UNCHANGED tlTools
    /\ UNCHANGED <<tlTarball, tlDirExists, tlDir, tlLinked, outsideTools>>

\* tools.rs:96-98
RemoveToolsDir ==
    /\ tlPc = "installed"
    /\ \E ok \in BOOLEAN :
        IF ok /\ tlDirExists
        THEN /\ tlDir' = remove_dir_all(tlDir)
             /\ tlDirExists' = FALSE
             /\ tlPc' = "create"
        ELSE /\ tlPc' = "err"
             /\ UNCHANGED <<tlDir, tlDirExists>>
    /\ UNCHANGED <<tlTarball, tlTools, tlLinked, outsideTools>>

\* tools.rs:99-101
CreateToolsDir ==
    /\ tlPc = "create"
    /\ \E ok \in BOOLEAN :
        IF ok
        THEN /\ tlDirExists' = TRUE
             /\ tlPc' = "link"
        ELSE /\ tlPc' = "err"
             /\ UNCHANGED tlDirExists
    /\ UNCHANGED <<tlTarball, tlTools, tlDir, tlLinked, outsideTools>>

\* tools.rs:104-107 and 201-237: one tool of the map, in the map's order
LinkTool(name) ==
    /\ tlPc = "link"
    /\ name \in DOMAIN tlTools \ tlLinked
    /\ \E ok \in BOOLEAN :
        IF ok /\ ~\E l \in tlDir : l.name = name
        THEN /\ tlDir' = tlDir \cup {ToolLink(name, tlTools[name])}
             /\ tlLinked' = tlLinked \cup {name}
             /\ UNCHANGED tlPc
        ELSE /\ tlDir' = DropLinked(tlDir, tlTools, tlLinked)
             /\ tlLinked' = {}
             /\ tlPc' = "err"
    /\ UNCHANGED <<tlTarball, tlTools, tlDirExists, outsideTools>>

\* tools.rs:109-122: the directory's mtime, then Ok
FinishSymlinks ==
    /\ tlPc = "link"
    /\ tlLinked = DOMAIN tlTools
    /\ \E ok \in BOOLEAN :
        IF ok
        THEN /\ tlPc' = "done"
             /\ UNCHANGED <<tlDir, tlLinked>>
        ELSE /\ tlDir' = DropLinked(tlDir, tlTools, tlLinked)
             /\ tlLinked' = {}
             /\ tlPc' = "err"
    /\ UNCHANGED <<tlTarball, tlTools, tlDirExists, outsideTools>>

(***************************************************************************)
(* The specifications.  Each runs one part; the other parts stay idle.      *)
(***************************************************************************)
ToolsIdle ==
    /\ tlTarball = <<>>
    /\ tlPc = "off"
    /\ tlTools = <<>>
    /\ tlDirExists = FALSE
    /\ tlDir = {}
    /\ tlLinked = {}

SinkIdle ==
    /\ ToolsIdle
    /\ fsParent = FALSE
    /\ fsMarker = FALSE
    /\ fsLog = FALSE
    /\ fsLinks = {}
    /\ srcMap = <<>>
    /\ gPc = [k \in Sinks |-> "off"]
    /\ gErr = [k \in Sinks |-> ""]
    /\ dPc = [k \in Sinks |-> "none"]
    /\ dMap = [k \in Sinks |-> <<>>]
    /\ dDone = [k \in Sinks |-> 0]
    /\ did = [k \in Sinks |-> {}]
    /\ wReg = [k \in Sinks |-> [w \in Watches |-> FALSE]]
    /\ wEvents = [k \in Sinks |-> [w \in Watches |-> 0]]
    /\ wWaited = [k \in Sinks |-> [w \in Watches |-> FALSE]]

PathIdle ==
    /\ sanParent = <<>>
    /\ sanPath = <<>>
    /\ sanResult = PathErr
    /\ sanDone = TRUE

FetchLocals ==
    /\ fRead = 0
    /\ fLen = 0
    /\ fNum = 0
    /\ fBuf = <<>>
    /\ fFdBuf = <<>>
    /\ fRecv = [bytes |-> 0, truncated |-> FALSE, fds |-> 0]
    /\ fTargets = <<>>
    /\ fDups = <<>>
    /\ fResult = Pending

FetchIdle ==
    /\ fConn = 0
    /\ fPc = "off"
    /\ fTable = [n \in Fds |-> NoFile]
    /\ FetchLocals

WireIdle ==
    /\ bound = FALSE
    /\ backlog = <<>>
    /\ wire = [c \in Conns |-> <<>>]
    /\ link = [c \in Conns |-> "idle"]

ServeIdle ==
    /\ sPc = "off"
    /\ sBindings = <<>>
    /\ sTable = ServerTable
    /\ sFiles = <<>>
    /\ sFds = <<>>
    /\ sPayload = <<>>
    /\ sAccepted = <<>>
    /\ cUid = [c \in Conns |-> OtherUid]
    /\ cState = [c \in Conns |-> "none"]
    /\ tPc = [c \in Conns |-> "none"]

\* SpecPath: as_relative_path on every enumerated input
InitPath ==
    /\ sanParent \in SanParents
    /\ sanPath \in SanPaths
    /\ sanResult = PathErr
    /\ sanDone = FALSE
    /\ SinkIdle
    /\ WireIdle
    /\ FetchIdle
    /\ ServeIdle

NextPath == Sanitize

SpecPath == InitPath /\ [][NextPath]_vars

\* SpecFetch: fetch_fds against an arbitrary peer
InitFetch ==
    /\ PathIdle
    /\ SinkIdle
    /\ ServeIdle
    /\ bound = TRUE
    /\ backlog = <<>>
    /\ wire = [c \in Conns |-> <<>>]
    /\ link = [c \in Conns |-> "idle"]
    /\ fConn = 1
    /\ fPc = "connect"
    /\ fTable \in SinkTables
    /\ FetchLocals

NextFetch ==
    \/ FetchConnect
    \/ PeerSends
    \/ FetchLen
    \/ FetchNum
    \/ RecvFds
    \/ Decode
    \/ DupNext
    \/ FetchFinish

SpecFetch == InitFetch /\ [][NextFetch]_vars

ServeStart ==
    /\ sPc = "bind"
    /\ sBindings \in Configs
    /\ sTable = ServerTable
    /\ sFiles = <<>>
    /\ sFds = <<>>
    /\ sPayload = <<>>
    /\ sAccepted = <<>>
    /\ cState = [c \in Conns |-> "none"]
    /\ tPc = [c \in Conns |-> "none"]

\* SpecServe: one source and clients of either UID that connect and wait
InitServe ==
    /\ PathIdle
    /\ SinkIdle
    /\ WireIdle
    /\ FetchIdle
    /\ ServeStart
    /\ cUid \in [Conns -> {ExpectedUid, OtherUid}]

NextServe ==
    \/ Bind
    \/ OpenSources
    \/ \E c \in Conns : Accept(c)
    \/ AcceptFails
    \/ \E c \in Conns : TaskSend(c)
    \/ \E c \in Conns : ClientConnect(c)

SpecServe == InitServe /\ [][NextServe]_vars

\* SpecExchange: one source and one sink running fetch_fds on connection 1
InitExchange ==
    /\ PathIdle
    /\ SinkIdle
    /\ WireIdle
    /\ ServeStart
    /\ \E u \in {ExpectedUid, OtherUid} :
        cUid = [c \in Conns |-> IF c = 1 THEN u ELSE OtherUid]
    /\ fConn = 1
    /\ fPc = "connect"
    /\ fTable \in ServeSinkTables
    /\ FetchLocals

NextExchange ==
    \/ Bind
    \/ OpenSources
    \/ \E c \in Conns : Accept(c)
    \/ AcceptFails
    \/ \E c \in Conns : TaskSend(c)
    \/ FetchConnect
    \/ FetchLen
    \/ FetchNum
    \/ RecvFds
    \/ Decode
    \/ DupNext
    \/ FetchFinish

SpecExchange == InitExchange /\ [][NextExchange]_vars

\* the invocations of `active` are about to run execute
SinkStart(active) ==
    /\ ToolsIdle
    /\ fsLog = FALSE
    /\ fsLinks = {}
    /\ gPc = [k \in Sinks |-> IF k \in active THEN "check_parent" ELSE "off"]
    /\ gErr = [k \in Sinks |-> ""]
    /\ dPc = [k \in Sinks |-> "none"]
    /\ dMap = [k \in Sinks |-> <<>>]
    /\ dDone = [k \in Sinks |-> 0]
    /\ did = [k \in Sinks |-> {}]
    /\ wReg = [k \in Sinks |-> [w \in Watches |-> FALSE]]
    /\ wEvents = [k \in Sinks |-> [w \in Watches |-> 0]]
    /\ wWaited = [k \in Sinks |-> [w \in Watches |-> FALSE]]

SinkStep(k) ==
    \/ SinkCheckParent(k)
    \/ SinkCheckMarker(k)
    \/ SinkFetch(k)
    \/ SinkLog(k)
    \/ SinkFork(k)
    \/ SinkWatch(k)
    \/ SinkPrecheck(k)
    \/ SinkWake(k)
    \/ ChildDaemonized(k)
    \/ ChildWatch(k)
    \/ ChildPublish(k)
    \/ ChildMarker(k)
    \/ ChildPrecheck(k)
    \/ ChildWake(k)
    \/ ChildRemove(k)

\* Spec: one sink invocation and the external consumer
Init ==
    /\ PathIdle
    /\ WireIdle
    /\ FetchIdle
    /\ ServeIdle
    /\ fsParent \in BOOLEAN
    /\ fsMarker \in BOOLEAN
    /\ srcMap \in SinkMaps
    /\ SinkStart({"A"})

Next ==
    \/ \E k \in Sinks : SinkStep(k)
    \/ ExtDeleteMarker
    \/ ExtCreateMarker

Spec == Init /\ [][Next]_vars

\* SpecSinks: two sink invocations with the same parent and marker, started
\* when neither path exists, fetching from a source with at most one binding
SharedMaps == {m \in SinkMaps : Len(m) = 0 \/ (Len(m) = 1 /\ m[1][1] = <<97>>)}

InitSinks ==
    /\ PathIdle
    /\ WireIdle
    /\ FetchIdle
    /\ ServeIdle
    /\ fsParent = FALSE
    /\ fsMarker = FALSE
    /\ srcMap \in SharedMaps
    /\ SinkStart(Sinks)

NextSinks ==
    \/ \E k \in Sinks : SinkStep(k)
    \/ ExtDeleteMarker

SpecSinks == InitSinks /\ [][NextSinks]_vars

\* a step of invocation k in which a system call fails for a reason outside
\* the program: the fetch, the log file, the fork, the daemonization, a watch
\* registration, a directory, symlink or marker creation that could have
\* succeeded, or the removal of an existing tree
Fault(k) ==
    \/ gPc'[k] = "err" /\ gErr'[k] \in {"fetch", "log", "watch"}
    \/ gPc[k] = "fork" /\ dPc'[k] = "none"
    \/ dPc[k] \in {"daemonize", "watch_create", "watch_delete"} /\ dPc'[k] = "exit1"
    \/ /\ dPc[k] = "publish"
       /\ dPc'[k] = "exit1"
       /\ \/ dDone[k] = Len(dMap[k])
          \/ LET at == LinkOf[dMap[k][dDone[k] + 1][1]]
             IN  at.ok /\ ~LinkAt(at.path)
    \/ dPc[k] = "remove" /\ fsParent /\ dPc'[k] = "exit1"

LiveStep(k) == SinkStep(k) /\ ~Fault(k)

\* SpecLive: one sink invocation started when neither path exists, and a
\* consumer that may delete the marker; no system call fails, and both
\* processes of the invocation keep being scheduled
InitLive ==
    /\ PathIdle
    /\ WireIdle
    /\ FetchIdle
    /\ ServeIdle
    /\ fsParent = FALSE
    /\ fsMarker = FALSE
    /\ srcMap \in SinkMaps
    /\ SinkStart({"A"})

NextLive ==
    \/ \E k \in Sinks : LiveStep(k)
    \/ ExtDeleteMarker

SpecLive == InitLive /\ [][NextLive]_vars /\ \A k \in Sinks : WF_vars(LiveStep(k))

\* SpecQuiet: one sink whose system calls may fail, and a consumer that
\* deletes the marker; nobody but the sink creates a file at the marker path
NextQuiet == (\E k \in Sinks : SinkStep(k)) \/ ExtDeleteMarker

SpecQuiet == InitLive /\ [][NextQuiet]_vars

\* what tools_dir may hold before with_symlinks
StalePath == [pid |-> "exited", nth |-> 1]
StaleDirs == {{}, {ToolLink("pipesys", StalePath)}, {ToolLink("old-tool", StalePath)}}

\* SpecTools: Tools::install followed by with_symlinks(tools_dir)
InitTools ==
    /\ PathIdle
    /\ WireIdle
    /\ FetchIdle
    /\ ServeIdle
    /\ fsParent = FALSE
    /\ fsMarker = FALSE
    /\ srcMap = <<>>
    /\ fsLog = FALSE
    /\ fsLinks = {}
    /\ gPc = [k \in Sinks |-> "off"]
    /\ gErr = [k \in Sinks |-> ""]
    /\ dPc = [k \in Sinks |-> "none"]
    /\ dMap = [k \in Sinks |-> <<>>]
    /\ dDone = [k \in Sinks |-> 0]
    /\ did = [k \in Sinks |-> {}]
    /\ wReg = [k \in Sinks |-> [w \in Watches |-> FALSE]]
    /\ wEvents = [k \in Sinks |-> [w \in Watches |-> 0]]
    /\ wWaited = [k \in Sinks |-> [w \in Watches |-> FALSE]]
    /\ tlTarball \in Tarballs
    /\ tlPc = "install"
    /\ tlTools = <<>>
    /\ tlDirExists \in BOOLEAN
    /\ tlDir \in (IF tlDirExists THEN StaleDirs ELSE {{}})
    /\ tlLinked = {}

NextTools ==
    \/ ToolsInstall
    \/ RemoveToolsDir
    \/ CreateToolsDir
    \/ \E name \in DOMAIN tlTools : LinkTool(name)
    \/ FinishSymlinks

SpecTools == InitTools /\ [][NextTools]_vars

(***************************************************************************)
(* Claims about the sanitizer (SpecPath).                                   *)
(***************************************************************************)
IsStrictPrefix(a, b) == Len(a) < Len(b) /\ SubSeq(b, 1, Len(a)) = a

\* C9: whenever as_relative_path succeeds, the result is the parent joined
\* with a non-empty relative path: its components are the parent's components
\* followed by at least one more, so the link location is a strict descendant
\* of the Parent Directory (stated as claimed; the code breaks it).
C9_StrictDescendant ==
    (sanDone /\ sanResult.ok)
        => IsStrictPrefix(Components(sanParent), Components(sanResult.path))

\* C10: as_relative_path returns an error for every path with a ".." piece
\* at any position; no path is produced for it.
C10_ParentRefRejected ==
    (sanDone /\ \E i \in 1..Len(Segments(sanPath)) : Segments(sanPath)[i] = ParentDir)
        => (~sanResult.ok /\ sanResult.path = <<>>)

\* the unit test's input: ".." in the middle of the path, rejected
C10_Witness ==
    /\ sanDone
    /\ sanParent = P_anything
    /\ sanPath = T_would_escape
    /\ ~StartsWithParentDir(sanPath)
    /\ ~sanResult.ok

\* the named components of a path: all but the root marker and "."
NamedComponents(s) == SelectSeq(Components(s), LAMBDA c : c \notin {RootDir, CurDir})

\* C11: for every parent and every path without a ".." piece,
\* as_relative_path succeeds and its result is the parent followed by the
\* path's components with the leading root marker removed; the two unit
\* tests' inputs give exactly "/tmp/tmp/foo/bar" and "tmp/and/then".
C11_ReRooted ==
    (sanDone /\ \A i \in 1..Len(Segments(sanPath)) : Segments(sanPath)[i] # ParentDir)
        => /\ sanResult.ok
           /\ Components(sanResult.path) = Components(sanParent) \o NamedComponents(sanPath)
           /\ (sanParent = P_tmp_abs /\ sanPath = T_tmp_foo_bar)
                => sanResult.path = E_tmp_tmp_foo_bar
           /\ (sanParent = P_tmp_rel /\ sanPath = T_and_then)
                => sanResult.path = E_tmp_and_then

\* the first unit test's input: an absolute path that already starts with
\* the parent has been re-rooted under it
C11_Witness ==
    /\ sanDone
    /\ sanParent = P_tmp_abs
    /\ sanPath = T_tmp_foo_bar
    /\ sanResult = PathOk(E_tmp_tmp_foo_bar)

(***************************************************************************)
(* Claims about fetch_fds against an arbitrary peer (SpecFetch).            *)
(***************************************************************************)
\* recv_fds has returned
Received ==
    \/ fPc \in {"decode", "dup"}
    \/ /\ fPc = "done"
       /\ fResult.err \notin {"targets message length", "number of file descriptors"}

\* the datagram recv_fds read (an empty one at end of stream)
RecvDatagram ==
    IF Len(wire[fConn]) >= 3 THEN wire[fConn][3] ELSE Datagram(<<>>, <<>>)

\* C3: a message whose announced descriptor count differs from the number of
\* descriptors received, or whose announced payload length differs from the
\* payload's size (shorter or longer), never gets past the checks: no
\* descriptor is duplicated for it and fetch_fds ends in an error.
C3_MismatchRejected ==
    (Received /\ (fRecv.fds # fNum \/ Len(RecvDatagram.data) # fLen))
        => /\ fPc \in {"decode", "done"}
           /\ fDups = <<>>
           /\ (fPc = "done" => (fResult.status = "err" /\ fResult.map = <<>>))

\* a payload longer than announced, whose announced part alone would decode
\* and whose descriptor count matches, has been rejected
C3_Witness ==
    /\ fPc = "done"
    /\ Received
    /\ Len(RecvDatagram.data) > fLen
    /\ fRecv.fds = fNum
    /\ fNum > 0
    /\ Deserialize(fBuf).ok
    /\ fResult.status = "err"

\* C4: when the deserialized target-path list is longer or shorter than the
\* descriptor list, fetch_fds fails instead of returning a shorter map
\* (stated as claimed; the code has no such check).
C4_PathCountChecked ==
    (fPc = "done" /\ Received /\ RecvChecks(fRecv, fLen, fNum) /\ Deserialize(fBuf).ok
        /\ Len(Deserialize(fBuf).paths) # Len(fFdBuf))
        => fResult.status = "err"

\* C5: a returned Descriptor Map holds no descriptor 0, 1 or 2: no received
\* descriptor of that range was let through, and every returned descriptor is
\* a duplicate of the received one at a number of at least MIN_FD.
C5_NoReservedFd ==
    fResult.status = "ok"
        => /\ \A i \in 1..Len(fFdBuf) : fFdBuf[i] \notin {0, 1, 2}
           /\ \A i \in 1..Len(fResult.map) :
                /\ fResult.map[i][2] \notin {0, 1, 2}
                /\ fResult.map[i][2] >= MIN_FD
                /\ fResult.map[i][2] # fFdBuf[i]
                /\ fTable[fResult.map[i][2]] = fTable[fFdBuf[i]]
                /\ fTable[fFdBuf[i]] # NoFile

\* a map of two entries has been returned
C5_Witness ==
    /\ fResult.status = "ok"
    /\ Len(fResult.map) = 2
    /\ fFdBuf[1] > MIN_FD

\* a verification step of fetch_fds has failed: a length field was not
\* read, a check on the received message failed, the payload did not
\* deserialize, a descriptor was refused, or a duplication failed
FetchFailure ==
    \/ ~Received
    \/ ~RecvChecks(fRecv, fLen, fNum)
    \/ ~Deserialize(fBuf).ok
    \/ \E i \in 1..Len(fFdBuf) : ~FdAccepted(fFdBuf[i])
    \/ Len(fDups) < Len(fFdBuf)

\* C17: fetch_fds is all-or-nothing: when any verification step has failed,
\* at any position of the descriptor list, it has returned an error and no
\* map, not even one of the entries that were validated before the failure.
C17_AllOrNothing ==
    /\ (fPc = "done" /\ FetchFailure) => (fResult.status = "err" /\ fResult.map = <<>>)
    /\ fResult.status # "ok" => fResult.map = <<>>

\* fetch_fds failed on the second descriptor after duplicating the first
C17_Witness ==
    /\ fPc = "done"
    /\ fResult.status = "err"
    /\ Len(fFdBuf) = 2
    /\ Len(fDups) = 1
    /\ Len(fTargets) = 2

\* C24: fetch_fds refuses a received descriptor only when it is 0, 1 or 2:
\* a message that passed the checks and deserialized, and whose received
\* descriptors are all MIN_FD or higher, does not fail the reserved-range
\* check (stated as claimed; the code refuses MIN_FD itself).
C24_OnlyReservedRejected ==
    (fPc = "done" /\ Received /\ RecvChecks(fRecv, fLen, fNum) /\ Deserialize(fBuf).ok
        /\ \A i \in 1..Len(fFdBuf) : fFdBuf[i] >= MIN_FD)
        => fResult.err # "invalid file descriptor"

(***************************************************************************)
(* Claims about the source and its clients (SpecServe, SpecExchange).       *)
(***************************************************************************)
UniqueTargets(bindings) ==
    \A i, j \in 1..Len(bindings) : bindings[i].target = bindings[j].target => i = j

\* the task of connection 1 sent all three parts and fetch_fds read them and
\* returned, without running out of descriptor numbers
CompleteExchange ==
    /\ tPc[fConn] = "done"
    /\ fPc = "done"
    /\ fRead = 3
    /\ fRecv.fds = Len(wire[fConn][3].files)
    /\ fResult.err # "duplicate"

\* C2: for every binding list with unique target paths, a complete exchange
\* between serve and a validated client's fetch_fds returns a map with one
\* entry per binding, the i-th entry holding the i-th binding's target path
\* and a duplicate of the handle opened for the i-th binding's source.
C2_ExchangeAligned ==
    (CompleteExchange /\ UniqueTargets(sBindings) /\ cUid[fConn] = ExpectedUid)
        => /\ fResult.status = "ok"
           /\ Len(fResult.map) = Len(sBindings)
           /\ \A i \in 1..Len(sBindings) :
                /\ fResult.map[i][1] = sBindings[i].target
                /\ fResult.map[i][2] # fFdBuf[i]
                /\ fTable[fResult.map[i][2]] = sBindings[i].source
                /\ fTable[fFdBuf[i]] = sBindings[i].source

\* two bindings with different targets went through a complete exchange
C2_Witness ==
    /\ CompleteExchange
    /\ Len(sBindings) = 2
    /\ UniqueTargets(sBindings)
    /\ fResult.status = "ok"
    /\ Len(fResult.map) = 2

\* the three parts serve's task sends, from the configuration
FullMessage ==
    <<Datagram(to_ne_bytes(Len(Serialize(TargetList(sBindings)))), <<>>),
      Datagram(to_ne_bytes(Len(sBindings)), <<>>),
      Datagram(Serialize(TargetList(sBindings)),
               [i \in 1..Len(sBindings) |-> sBindings[i].source])>>

\* nothing was ever sent on a connection of another UID, and a connection of
\* the configured UID whose credentials were read has a task that sends the
\* parts in order and is done only when all three are sent
SentByUid ==
    \A c \in Conns :
        /\ cUid[c] # ExpectedUid => (wire[c] = <<>> /\ tPc[c] = "none")
        /\ (cUid[c] = ExpectedUid /\ cState[c] = "serving")
            => /\ tPc[c] # "none"
               /\ Len(wire[c]) <= 3
               /\ wire[c] = SubSeq(FullMessage, 1, Len(wire[c]))
               /\ (tPc[c] = "done" => wire[c] = FullMessage)

\* the step that drops a connection of another UID leaves serve in its loop,
\* listening, with its source handles open
DropContinues ==
    \A c \in Conns :
        (cState[c] # "ignored" /\ cState'[c] = "ignored")
            => (sPc' = "listen" /\ bound' /\ sFiles' = sFiles /\ sTable' = sTable)

\* C7: a connection whose peer UID differs from client_uid is sent none of the
\* three parts, dropping it leaves the accept loop running, and a connection
\* of the matching UID accepted after it still gets its task and the full
\* message.
C7_MismatchIgnored == []SentByUid /\ [][DropContinues]_vars

\* a connection of another UID was dropped, then one of the configured UID
\* was accepted and sent the full message
C7_Witness ==
    /\ Len(sAccepted) = 2
    /\ cState[sAccepted[1]] = "ignored"
    /\ wire[sAccepted[1]] = <<>>
    /\ cUid[sAccepted[2]] = ExpectedUid
    /\ tPc[sAccepted[2]] = "done"
    /\ wire[sAccepted[2]] = FullMessage
    /\ Len(sBindings) > 0

\* an error in the handling of accepted connection c: its peer credentials
\* could not be read, or one of its three sends failed
HandlingError(c) ==
    \/ cState[c] # "dropped" /\ cState'[c] = "dropped"
    \/ tPc[c] \in {"send_len", "send_num", "send_fds"} /\ tPc'[c] = "failed"

\* a handling error leaves serve in its loop, listening, its sources open;
\* serve leaves the loop only in a step that accepted no connection
ConnectionErrorsLocal ==
    /\ \A c \in Conns :
        HandlingError(c) => (sPc' = "listen" /\ bound' /\ sFiles' = sFiles)
    /\ (sPc = "listen" /\ sPc' # "listen") => sAccepted' = sAccepted

\* C20: an error while handling one accepted connection (reading its peer
\* identity, or one of the three sends) ends only that connection's handling
\* and the loop keeps accepting; the loop stops only when bind or accept
\* itself fails (stated as claimed; the code returns from serve when the
\* peer credentials cannot be read).
C20_ConnectionErrorsLocal == [][ConnectionErrorsLocal]_vars

\* C21: every validated connection has its own task: while serve is in its
\* loop, whatever the other tasks have or have not sent, the next queued
\* connection can be accepted and a task that has parts left can send its
\* next part; a client whose task never sends holds back neither the loop
\* nor a later client's full message.
C21_IndependentTasks ==
    /\ (sPc = "listen" /\ backlog # <<>>)
        => ENABLED (Accept(Head(backlog)) /\ sPc' = "listen")
    /\ \A c \in Conns :
        (sPc = "listen" /\ tPc[c] \in {"send_len", "send_num", "send_fds"})
            => ENABLED (TaskSend(c) /\ tPc'[c] = TaskAfter(tPc[c]))

\* the first validated client was sent nothing yet, and the one accepted
\* after it has its full message
C21_Witness ==
    /\ Len(sAccepted) = 2
    /\ tPc[sAccepted[1]] = "send_len"
    /\ wire[sAccepted[1]] = <<>>
    /\ tPc[sAccepted[2]] = "done"
    /\ wire[sAccepted[2]] = FullMessage
    /\ Len(sBindings) > 0

\* every binding's handle is open under the number the descriptor list
\* holds for it, and the serialized path list is the one built at startup
HandlesOpen ==
    /\ Len(sFds) = Len(sBindings)
    /\ \A i \in 1..Len(sBindings) : sTable[sFds[i]] = sBindings[i].source
    /\ sPayload = Serialize(TargetList(sBindings))

\* C22: every handle opened at startup is open, and the descriptor list and
\* the serialized path list are as built, in every state in which the serve
\* loop is running or a connection task is still sending (stated as claimed;
\* the handles are closed when serve returns, whatever its tasks are doing).
C22_HandlesStayOpen ==
    (sPc = "listen" \/ \E c \in Conns : tPc[c] \in {"send_len", "send_num", "send_fds"})
        => HandlesOpen

\* what is on the wire of connection c is a length, then a count, then one
\* datagram with the serialized target paths and the descriptors, and the
\* announced numbers are that datagram's payload size and descriptor count
ThreePartsInOrder(c) ==
    /\ Len(wire[c]) <= 3
    /\ (tPc[c] = "done" => Len(wire[c]) = 3)
    /\ Len(wire[c]) >= 1 =>
        wire[c][1] = Datagram(to_ne_bytes(Len(Serialize(TargetList(sBindings)))), <<>>)
    /\ Len(wire[c]) >= 2 => wire[c][2] = Datagram(to_ne_bytes(Len(sBindings)), <<>>)
    /\ Len(wire[c]) = 3 =>
        /\ wire[c][3].data = Serialize(TargetList(sBindings))
        /\ wire[c][3].files = [i \in 1..Len(sBindings) |-> sBindings[i].source]
        /\ from_ne_bytes(wire[c][1].data) = Len(wire[c][3].data)
        /\ from_ne_bytes(wire[c][2].data) = Len(wire[c][3].files)

\* fetch_fds takes the first part as the payload length, the second as the
\* descriptor count and the third as the payload of that length
ReadInOrder ==
    /\ fPc \in {"num", "recv", "decode", "dup"} => fLen = from_ne_bytes(wire[fConn][1].data)
    /\ fPc \in {"recv", "decode", "dup"} => fNum = from_ne_bytes(wire[fConn][2].data)
    /\ (fPc \in {"decode", "dup"} /\ Len(wire[fConn]) = 3) =>
        /\ fBuf = wire[fConn][3].data
        /\ Len(fBuf) = fLen
        /\ fRecv.fds <= fNum

\* C23: on every validated connection the source sends exactly three
\* messages in this order: the byte length of the serialized target paths,
\* the descriptor count, then one datagram with that serialized list and the
\* descriptors; the announced length is that datagram's payload size and the
\* announced count its number of descriptors, and fetch_fds reads the three
\* parts in the same order.
C23_WireProtocol == (\A c \in Conns : ThreePartsInOrder(c)) /\ ReadInOrder

\* the task sent the three parts for two bindings and fetch_fds read them all
C23_Witness ==
    /\ tPc[fConn] = "done"
    /\ Len(sBindings) = 2
    /\ fRead = 3
    /\ fPc = "dup"
    /\ fNum = 2
    /\ fLen = Len(wire[fConn][3].data)

(***************************************************************************)
(* Claims about the sink (Spec, SpecSinks).                                 *)
(***************************************************************************)
\* the child of invocation k is alive and has published a symlink or
\* created the marker
Publishing(k) ==
    /\ dPc[k] \notin {"none", "daemonize", "exit0", "exit1"}
    /\ (dDone[k] > 0 \/ "marker" \in did[k])

\* C1: of two sink invocations with the same parent and marker that run
\* concurrently, at most one ever publishes symlinks or creates the marker:
\* the two children are never both alive with something published (stated
\* as claimed; the code breaks it).
C1_ExclusiveOwnership ==
    \A j, k \in Sinks : (j # k /\ Publishing(j)) => ~Publishing(k)

PreconditionErrors == {"parent exists", "marker exists"}

\* an invocation that failed a precondition made no connection, created no
\* log file, did not fork, registered no watch, and changed nothing on disk
NothingDone ==
    \A k \in Sinks :
        gErr[k] \in PreconditionErrors
            => /\ gPc[k] = "err"
               /\ did[k] = {}
               /\ dPc[k] = "none"
               /\ dMap[k] = <<>>
               /\ \A w \in Watches : ~wReg[k][w]

\* a check made while its path exists ends the invocation in that step and
\* leaves the filesystem as it was
CheckFails ==
    \A k \in Sinks :
        /\ (gPc[k] = "check_parent" /\ fsParent /\ gPc'[k] # gPc[k])
            => (gPc'[k] = "err" /\ gErr'[k] = "parent exists" /\ UNCHANGED varsFs)
        /\ (gPc[k] = "check_marker" /\ fsMarker /\ gPc'[k] # gPc[k])
            => (gPc'[k] = "err" /\ gErr'[k] = "marker exists" /\ UNCHANGED varsFs)

\* C6: execute invoked while the parent path (or the marker path) exists
\* fails at once with an error and, on that run, makes no connection, does
\* not daemonize, and creates no log file, directory, symlink or marker.
C6_PreconditionFailure == []NothingDone /\ [][CheckFails]_vars

\* the invocation found the parent in place and failed; nothing was created
C6_Witness ==
    /\ gErr["A"] = "parent exists"
    /\ gPc["A"] = "err"
    /\ fsParent
    /\ ~fsLog
    /\ fsLinks = {}

\* a wait whose condition holds at its first look returns in that step and
\* takes no event: the creation waits when the marker exists, the deletion
\* wait when it does not
PrecheckReturns ==
    \A k \in Sinks :
        /\ (gPc[k] = "precheck" /\ gPc'[k] # gPc[k] /\ fsMarker)
            => (gPc'[k] = "ok" /\ UNCHANGED <<wEvents, wWaited>>)
        /\ (dPc[k] = "precheck_create" /\ dPc'[k] # dPc[k] /\ fsMarker)
            => (dPc'[k] = "precheck_delete" /\ UNCHANGED <<wEvents, wWaited>>)
        /\ (dPc[k] = "precheck_delete" /\ dPc'[k] # dPc[k] /\ ~fsMarker)
            => (dPc'[k] = "remove" /\ UNCHANGED <<wEvents, wWaited>>)

\* C8: the marker wait checks its condition before it waits for an event: a
\* wait for creation started when the marker exists returns immediately, and
\* a wait for deletion started when the marker is absent returns immediately.
C8_LevelTriggered == [][PrecheckReturns]_vars

\* the foreground's watch was registered after the marker appeared, so it
\* has no event, and its wait returned; the child's deletion wait returned
\* without blocking either
C8_Witness ==
    /\ gPc["A"] = "ok"
    /\ wReg["A"]["fg"]
    /\ wEvents["A"]["fg"] = 0
    /\ ~wWaited["A"]["fg"]
    /\ dPc["A"] \in {"remove", "exit0", "exit1"}
    /\ "marker" \in did["A"]
    /\ ~wWaited["A"]["delete"]

\* the fork of invocation k failed: the foreground is past the detach and
\* there is no child
ForkFailed(k) == gPc[k] \in {"watch", "precheck", "wait", "ok"} /\ dPc[k] = "none"

\* some step of invocation k has failed
ErrorIn(k) == gErr[k] # "" \/ dPc[k] = "exit1" \/ ForkFailed(k)

\* a process of invocation k is still at work: the foreground is on its way
\* to, or in, the marker wait, or the child is alive
Continuing(k) ==
    \/ gPc[k] \in {"watch", "precheck", "wait"}
    \/ dPc[k] \notin {"none", "exit0", "exit1"}

\* C12: every error of an invocation is fatal to the whole operation: once a
\* precondition, the fetch, the detach on either side of the fork, a publish
\* step or the teardown has failed, no process of that invocation goes on
\* publishing or waiting on the marker (stated as claimed; the code breaks
\* it).
C12_ErrorsFatal ==
    \A k \in Sinks : ErrorIn(k) => ~Continuing(k)

\* the child of invocation k has torn down: the tree and the marker are
\* gone and the child exited with status 0
TornDown(k) == dPc[k] = "exit0" /\ ~fsParent /\ ~fsMarker

\* C13: once the child has published, created the marker and seen it in
\* place, whenever the consumer deletes the marker the child eventually
\* removes the whole parent tree and exits with status 0, after which
\* neither the parent nor the marker exists (stated as claimed; the code
\* breaks it).
C13_TeardownFollowsDeletion ==
    \A k \in Sinks :
        ("marker" \in did[k] /\ dPc[k] \in {"precheck_delete", "wait_delete"} /\ ~fsMarker)
            ~> TornDown(k)

\* C15: the foreground's watch for the marker's creation is registered
\* before the child creates its first directory or symlink and before it
\* creates the marker.
C15_WatchBeforePublish ==
    \A k \in Sinks : did[k] \cap {"mkdir", "symlink", "marker"} # {} => wReg[k]["fg"]

\* the links of the entries of sink k's map
MapLinks(k) ==
    {Symlink(k, LinkOf[dMap[k][i][1]].path, dMap[k][i][2]) : i \in 1..Len(dMap[k])}

\* C16: while the marker this sink created has not yet sent the child into
\* teardown, every (path, fd) entry of its map has a symlink at the
\* sanitized location under the parent whose target is /proc/<child>/fd/<fd>.
C16_MarkerAfterLinks ==
    \A k \in Sinks :
        ("marker" \in did[k] /\ dPc[k] \notin {"remove", "exit0", "exit1"})
            => /\ dDone[k] = Len(dMap[k])
               /\ \A i \in 1..Len(dMap[k]) : LinkOf[dMap[k][i][1]].ok
               /\ MapLinks(k) \subseteq fsLinks

\* the marker exists, created by the child after it published MaxLinks links
C16_Witness ==
    /\ "marker" \in did["A"]
    /\ fsMarker
    /\ dPc["A"] = "wait_delete"
    /\ Len(dMap["A"]) = MaxLinks
    /\ Cardinality(MapLinks("A")) = MaxLinks

\* the steps of execute up to the detach, in the order they are taken
BeforeFork ==
    {<<"check_parent", "check_marker">>, <<"check_marker", "fetch">>, <<"fetch", "log">>,
     <<"log", "fork">>}

\* execute reaches the detach only through the parent check, the marker
\* check and the fetch, each having succeeded, in that order; the child
\* appears in the detach step and in no other
ForkAfterChecks ==
    \A k \in Sinks :
        /\ (gPc'[k] # gPc[k] /\ gPc'[k] \in {"check_marker", "fetch", "log", "fork"})
            => <<gPc[k], gPc'[k]>> \in BeforeFork
        /\ (gPc[k] = "check_parent" /\ gPc'[k] = "check_marker") => ~fsParent
        /\ (gPc[k] = "check_marker" /\ gPc'[k] = "fetch") => ~fsMarker
        /\ (gPc[k] = "fetch" /\ gPc'[k] = "log") => dMap'[k] = srcMap
        /\ (dPc[k] = "none" /\ dPc'[k] # "none")
            => (gPc[k] = "fork" /\ "connect" \in did[k] /\ gErr[k] = "")

\* a failed precondition or fetch has ended the invocation with its error
\* and there is no child
FailureReturned ==
    \A k \in Sinks :
        gErr[k] \in PreconditionErrors \cup {"fetch"}
            => (gPc[k] = "err" /\ dPc[k] = "none" /\ "fork" \notin did[k])

\* C18: the detach happens only after the parent-absent check, the
\* marker-absent check and the fetch have succeeded, in that order; a failed
\* precondition or fetch is returned to the caller and no background process
\* is created in that run.
C18_ForkAfterValidation == []FailureReturned /\ [][ForkAfterChecks]_vars

\* a run that passed both checks and the fetch and whose child is running
C18_Witness ==
    /\ dPc["A"] = "publish"
    /\ "connect" \in did["A"]
    /\ Len(dMap["A"]) = MaxLinks
    /\ gErr["A"] = ""

\* the child of sink k has ended without having created the marker
ChildFailedEarly(k) == dPc[k] \in {"exit0", "exit1"} /\ "marker" \notin did[k]

\* a child that ended before creating the marker ended with status 1, and
\* its foreground has not returned from wait_for_marker with the marker found
NotNotified ==
    \A k \in Sinks : ChildFailedEarly(k) => (dPc[k] = "exit1" /\ gPc[k] # "ok")

\* a foreground blocked on the marker of a child that ended early stays
\* blocked
StaysBlocked ==
    \A k \in Sinks : (ChildFailedEarly(k) /\ gPc[k] = "wait") => gPc'[k] = "wait"

\* C19: a child that fails after the detach and before creating the marker
\* exits nonzero and its foreground is never notified: with no other actor
\* creating the marker, wait_for_marker does not return.
C19_ForegroundBlocked == []NotNotified /\ [][StaysBlocked]_vars

\* the child created a directory, failed on the symlink and exited 1; the
\* foreground is blocked on its watch
C19_Witness ==
    /\ dPc["A"] = "exit1"
    /\ did["A"] \cap {"mkdir", "symlink", "marker"} = {"mkdir"}
    /\ gPc["A"] = "wait"
    /\ wReg["A"]["fg"]

\* the positions of the child inside manage_symlinks
InManage ==
    {"watch_create", "watch_delete", "publish", "precheck_create", "wait_create",
     "precheck_delete", "wait_delete", "remove"}

\* a step of the child of k: it leaves the foreground's position, error and
\* watch alone; a failed daemonize exits 1; manage_symlinks is left only by
\* exit 1, or by exit 0 once the tree is removed; an exited child does
\* nothing more
ChildEndsInExit ==
    \A k \in Sinks :
        /\ (dPc[k] # "none" /\ dPc'[k] # dPc[k])
            => /\ gPc'[k] = gPc[k]
               /\ gErr'[k] = gErr[k]
               /\ wReg'[k]["fg"] = wReg[k]["fg"]
        /\ (dPc[k] = "daemonize" /\ dPc'[k] # dPc[k]) => dPc'[k] \in {"watch_create", "exit1"}
        /\ (dPc[k] \in InManage /\ dPc'[k] # dPc[k])
            => \/ dPc'[k] \in InManage \cup {"exit1"}
               \/ dPc'[k] = "exit0" /\ dPc[k] = "remove" /\ ~fsParent'
        /\ dPc[k] \in {"exit0", "exit1"} => dPc'[k] = dPc[k]
        /\ wReg'[k]["fg"] # wReg[k]["fg"] => (gPc[k] = "watch" /\ dPc'[k] = dPc[k])

\* C25: after the detach the child never returns into the foreground's
\* control flow: a daemonize error and a manage_symlinks error end in exit 1,
\* a clean completion in exit 0, and only the foreground registers the watch
\* of wait_for_marker and waits on it.
C25_ChildNeverReturns == [][ChildEndsInExit]_vars

\* the child completed and exited 0 while its foreground had returned from
\* wait_for_marker
C25_Witness ==
    /\ dPc["A"] = "exit0"
    /\ gPc["A"] = "ok"
    /\ "rmdir" \in did["A"]
    /\ Len(dMap["A"]) = MaxLinks

\* C26: foreground readiness is never lost: whenever the child has created
\* the marker, the foreground's execute eventually returns success, also when
\* the foreground's watch is registered only after the marker was created and
\* the consumer deletes the marker at any moment after it appeared (stated as
\* claimed, for a foreground whose watch is not yet registered; the code
\* breaks it).
C26_ReadinessNotLost ==
    \A k \in Sinks : ("marker" \in did[k] /\ ~wReg[k]["fg"]) ~> gPc[k] = "ok"

\* the marker from the side of sink k: the child writes it once; no step of
\* sink k takes it away; the child turns to the removal of the tree only in
\* a state in which the marker it wrote is gone; the tree is removed by a
\* child that is at that point, and by nothing else
MarkerLifecycle ==
    \A k \in Sinks :
        /\ (dPc[k] = "publish" /\ dPc'[k] = "precheck_create") => "marker" \notin did[k]
        /\ ("marker" \in did'[k] /\ "marker" \notin did[k])
            => (dPc[k] = "publish" /\ dPc'[k] = "precheck_create" /\ fsMarker')
        /\ (fsMarker /\ ~fsMarker') => (dPc'[k] = dPc[k] /\ gPc'[k] = gPc[k])
        /\ (dPc[k] # "remove" /\ dPc'[k] = "remove")
            => ("marker" \in did[k] /\ ~fsMarker /\ dPc[k] \in {"precheck_delete", "wait_delete"})
        /\ (fsParent /\ ~fsParent')
            => \E j \in Sinks : dPc[j] = "remove" /\ dPc'[j] = "exit0"

BadEntry(k) ==
    /\ dPc[k] = "publish"
    /\ dDone[k] < Len(dMap[k])
    /\ LET at == LinkOf[dMap[k][dDone[k] + 1][1]]
       IN  ~at.ok \/ \E l \in fsLinks : l.at = at.path

\* a bad entry is not published, and a child that fails at an entry leaves
\* the links and the marker as they are
PublishFailureStops ==
    \A k \in Sinks :
        /\ BadEntry(k) => (dDone'[k] = dDone[k] /\ dPc'[k] \in {"publish", "exit1"})
        /\ (dPc[k] = "publish" /\ dDone[k] < Len(dMap[k]) /\ dPc'[k] = "exit1")
            => (fsLinks' = fsLinks /\ fsMarker' = fsMarker /\ did'[k] \ {"mkdir"} = did[k] \ {"mkdir"})

\* a child that exited in the loop, at entry dDone + 1: no marker of its
\* own, no removal, the entries before that one still published and none
\* after it
StoppedAtEntry ==
    \A k \in Sinks :
        (dPc[k] = "exit1" /\ wReg[k]["delete"] /\ dDone[k] < Len(dMap[k]))
            => /\ did[k] \cap {"marker", "rmdir"} = {}
               /\ {l \in fsLinks : l.pid = k} =
                    {Symlink(k, LinkOf[dMap[k][i][1]].path, dMap[k][i][2]) : i \in 1..dDone[k]}

\* C28: when publishing an entry fails in manage_symlinks (sanitization,
\* directory creation or symlink creation, a collision of two entries on one
\* link included), the child stops at that entry: it creates no marker,
\* publishes no later entry, leaves the entries already published in place,
\* and exits with status 1.
C28_PublishFailureFatal == []StoppedAtEntry /\ [][PublishFailureStops]_vars

\* the second entry sanitized to the link of the first: the child exited 1
\* with the first link in place and no marker written
C28_Witness ==
    /\ dPc["A"] = "exit1"
    /\ Len(dMap["A"]) = 2
    /\ dDone["A"] = 1
    /\ LinkOf[dMap["A"][2][1]].ok
    /\ LinkOf[dMap["A"][2][1]] = LinkOf[dMap["A"][1][1]]
    /\ Symlink("A", LinkOf[dMap["A"][1][1]].path, dMap["A"][1][2]) \in fsLinks
    /\ "marker" \notin did["A"]
    /\ ~fsMarker

(***************************************************************************)
(* Claims about twoliter's tools                                            *)
(***************************************************************************)
\* every regular tarball entry and every embedded binary
InstalledNames ==
    {tlTarball[i].name : i \in {j \in 1..Len(tlTarball) : tlTarball[j].type = "Regular"}}
        \cup {EmbeddedTools[i] : i \in 1..Len(EmbeddedTools)}

\* C14: after install and with_symlinks on an existing tools_dir, every
\* regular tarball entry and every embedded binary is retrievable by its
\* target name, tools_dir/<target name> is a symlink to that tool's sealed
\* file path, and nothing of the directory's previous content remains.
C14_ToolsLinked ==
    /\ tlPc \in {"installed", "create", "link", "done"} =>
        \A n \in InstalledNames : tool(tlTools, n) # <<>>
    /\ tlPc = "done" =>
        /\ tlDirExists
        /\ \A n \in InstalledNames :
            \E l \in tlDir : l.name = n /\ <<l.target>> = tool(tlTools, n)
        /\ \A l \in tlDir : <<l.target>> = tool(tlTools, l.name)

\* with_symlinks finished on an existing directory, with a
\* tarball entry named like an embedded binary and a skipped directory entry
C14_Witness ==
    /\ tlPc = "done"
    /\ Len(tlTarball) = MaxEntries
    /\ \E i \in 1..Len(tlTarball) : tlTarball[i].type = "Directory"
    /\ \E i \in 1..Len(tlTarball) : tlTarball[i] = [name |-> "pipesys", type |-> "Regular"]
    /\ \A l \in tlDir : l.target # StalePath

=============================================================================
